---------------------------- MODULE Spec2Model ----------------------------
(***************************************************************************)
(* Model of the scoring pipeline of repo-pilot (api/ml_model.py and its    *)
(* copy inside api/index.py): the feature extractor, the synthetic data    *)
(* generator, StandardScaler, PurePythonLinearRegressor and the lazily     *)
(* trained process-wide registry `models` used by predict_scores.          *)
(*                                                                         *)
(* Five specifications share the variables:                                *)
(*   Spec          request threads calling predict_scores (the registry)   *)
(*   SpecFeatures  extract_features applied to bounded file trees          *)
(*   SpecGenerator generate_synthetic_data, one row per loop iteration     *)
(*   SpecScaler    one StandardScaler object: fit_transform / transform    *)
(*   SpecRegressor one PurePythonLinearRegressor object: __init__ / fit    *)
(***************************************************************************)
EXTENDS Integers, Sequences, FiniteSets, TLC

VARIABLES
    \* ---- the registry and the request threads (Spec)
    models,        \* the global dict: target name -> MLPipeline, in insertion order
    pc,            \* per thread: where it is inside predict_scores
    calls,         \* per thread: predict_scores calls made so far
    idx,           \* per thread: loop index of train_models (1-based)
    raw,           \* per thread: the raw value the pipelines predict for X_new
    predictions,   \* per thread: the dict predict_scores is building
    iterUsed,      \* per thread: dict size captured by the items() iterator
    iterPos,       \* per thread: entries the iterator has yielded
    err,           \* per thread: the exception that left predict_scores
    \* ---- extract_features (SpecFeatures)
    file_tree,     \* the argument: a sequence of paths
    features,      \* the dict extract_features returned (<<>> before the call)
    \* ---- generate_synthetic_data (SpecGenerator)
    num_samples,   \* the argument
    data,          \* the list of rows built so far
    gen_features,  \* the local dict `features` of the last loop iteration
    gen_scores,    \* the local dict `scores` of the last loop iteration
    \* ---- one StandardScaler object (SpecScaler)
    means,         \* self.means
    stds,          \* self.stds
    scaler_calls,  \* method calls made on the object so far
    scaler_op,     \* the method called last
    scaler_X,      \* its argument X
    scaler_out,    \* the matrix it returned (<<>> if it raised)
    scaler_err,    \* the exception it raised, or "none"
    \* ---- one PurePythonLinearRegressor object (SpecRegressor)
    lr,            \* self.lr
    epochs,        \* self.epochs
    weights,       \* self.weights
    bias,          \* self.bias
    fits,          \* fit calls made on the object so far
    fit_X,         \* the arguments of the last fit call
    fit_y

threadVars == <<models, pc, calls, idx, raw, predictions, iterUsed, iterPos, err>>
featureVars == <<file_tree, features>>
generatorVars == <<num_samples, data, gen_features, gen_scores>>
scalerVars ==
    <<means, stds, scaler_calls, scaler_op, scaler_X, scaler_out, scaler_err>>
regressorVars == <<lr, epochs, weights, bias, fits, fit_X, fit_y>>

vars == <<models, pc, calls, idx, raw, predictions, iterUsed, iterPos, err,
          file_tree, features, num_samples, data, gen_features, gen_scores,
          means, stds, scaler_calls, scaler_op, scaler_X, scaler_out, scaler_err,
          lr, epochs, weights, bias, fits, fit_X, fit_y>>

-----------------------------------------------------------------------------
(* Bounds of the model *)

NumThreads == 2
MaxCalls == 2
MaxPaths == 2
\* random.uniform draws are taken from the grid of multiples of 1/RatioDen
RatioDen == 20
\* random.randint(10, 500) is drawn from 10..10+MaxSpread and 500
MaxSpread == 2
\* bits of a float's significand (53 in CPython)
MantBits == 3
\* rows and columns of a matrix handed to StandardScaler
MaxRows == 3
MaxCols == 2
\* method calls made on one StandardScaler
MaxScalerCalls == 2
\* the epochs argument of PurePythonLinearRegressor (500 and 50 by default)
MaxEpochs == 2
\* fit calls made on one PurePythonLinearRegressor
MaxFits == 2

-----------------------------------------------------------------------------
(* Rationals: Python floats whose value the model keeps exactly *)

Rat(n, d) == [n |-> n, d |-> d]

Abs(i) == IF i < 0 THEN -i ELSE i

RECURSIVE GCD(_, _)
GCD(a, b) == IF b = 0 THEN a ELSE GCD(b, a % b)

\* n/d in lowest terms with a positive denominator
Norm(n, d) ==
    LET g == GCD(Abs(n), Abs(d))
        sgn == IF d < 0 THEN -1 ELSE 1
    IN  Rat(sgn * (n \div g), sgn * (d \div g))

IntRat(i) == Rat(i, 1)

RatNeg(a) == Rat(-a.n, a.d)

RatAdd(a, b) ==
    LET g == GCD(a.d, b.d)
    IN  Norm(a.n * (b.d \div g) + b.n * (a.d \div g), (a.d \div g) * b.d)

RatSub(a, b) == RatAdd(a, RatNeg(b))

RatMul(a, b) == Norm(a.n * b.n, a.d * b.d)

RatLess(a, b) == a.n * b.d < b.n * a.d

RatEq(a, b) == a.n * b.d = b.n * a.d

RatMin(a, b) == IF RatLess(b, a) THEN b ELSE a

RatMax(a, b) == IF RatLess(a, b) THEN b ELSE a

\* int(x) for a float x: truncation towards zero
Trunc(a) == IF a.n >= 0 THEN a.n \div a.d ELSE -((-a.n) \div a.d)

-----------------------------------------------------------------------------
(* Floating point.  A Python float is a binary floating-point number: every  *)
(* arithmetic result is the exact result rounded to the nearest number with  *)
(* a significand of MantBits bits, ties to even (IEEE 754 binary64 has 53    *)
(* bits; the exponent range is not modelled).  A float is kept as the        *)
(* rational it denotes.                                                      *)

RECURSIVE Pow2(_)
Pow2(k) == IF k = 0 THEN 1 ELSE 2 * Pow2(k - 1)

\* a/d rounded to the nearest integer, ties to even (a >= 0, d > 0)
RoundHalfEven(a, d) ==
    LET q == a \div d
        r == a % d
    IN  IF 2 * r > d \/ (2 * r = d /\ q % 2 = 1) THEN q + 1 ELSE q

\* (a/d) * m rounded, for a/d > 0 and m a power of two: a/d is brought into
\* [2^(MantBits-1), 2^MantBits) and rounded to an integer there.
RECURSIVE RoundScaled(_, _, _)
RoundScaled(a, d, m) ==
    IF a >= Pow2(MantBits) * d THEN RoundScaled(a, 2 * d, RatMul(m, Rat(2, 1)))
    ELSE IF a < Pow2(MantBits - 1) * d
    THEN RoundScaled(2 * a, d, RatMul(m, Rat(1, 2)))
    ELSE RatMul(IntRat(RoundHalfEven(a, d)), m)

\* The float nearest to the rational q
FRound(q) ==
    IF q.n = 0 THEN Rat(0, 1)
    ELSE IF q.n > 0 THEN RoundScaled(q.n, q.d, Rat(1, 1))
    ELSE RatNeg(RoundScaled(-q.n, q.d, Rat(1, 1)))

\* a + b, a - b, a * b, a / b on floats (b # 0 for a / b)
FAdd(a, b) == FRound(RatAdd(a, b))

FSub(a, b) == FRound(RatSub(a, b))

FMul(a, b) == FRound(RatMul(a, b))

FDiv(a, b) == FRound(Norm(a.n * b.d, a.d * b.n))

\* floor(sqrt(n/d)) for n/d in [4^(MantBits-1), 4^MantBits)
FloorSqrt(n, d) ==
    CHOOSE r \in 0..Pow2(MantBits) :
        r * r * d <= n /\ (r + 1) * (r + 1) * d > n

\* sqrt(n/d) * m rounded, m a power of two: n/d is brought into
\* [4^(MantBits-1), 4^MantBits), where the root has MantBits bits.
RECURSIVE SqrtScaled(_, _, _)
SqrtScaled(n, d, m) ==
    IF n >= Pow2(2 * MantBits) * d
    THEN SqrtScaled(n, 4 * d, RatMul(m, Rat(2, 1)))
    ELSE IF n < Pow2(2 * MantBits - 2) * d
    THEN SqrtScaled(4 * n, d, RatMul(m, Rat(1, 2)))
    ELSE LET r == FloorSqrt(n, d)
             up == 4 * n > (4 * r * r + 4 * r + 1) * d
         IN  RatMul(IntRat(IF up THEN r + 1 ELSE r), m)

\* a ** 0.5 for a float a > 0, taken as the correctly rounded square root
FSqrt(a) == SqrtScaled(a.n, a.d, Rat(1, 1))

-----------------------------------------------------------------------------
(* The registry and predict_scores *)

Threads == 1..NumThreads

target_cols ==
    <<"codeQuality", "security", "documentation", "maintainability",
      "dependencies", "testCoverage", "overall">>

NumTargets == Len(target_cols)

\* What a trained pipeline may predict for one X_new before clamping:
\* below 0, inside [0,100] with a fractional part, above 100.
RawPreds == {Rat(-41, 2), Rat(99, 2), Rat(261, 2)}

\* int(min(100, max(0, pred_value))): int() truncates towards zero, and the
\* value is not negative once max(0, .) has been applied.
ClampScore(v) ==
    LET lo == IF v.n < 0 THEN Rat(0, 1) ELSE v
        hi == IF lo.n > 100 * lo.d THEN Rat(100, 1) ELSE lo
    IN  hi.n \div hi.d

\* MLPipeline(): a fresh object per loop iteration of one train_models call.
\* Its trained weights come from that call's random dataset, so the object is
\* identified by the call that built it.
MLPipeline(t) == [by |-> t, call |-> calls[t]]

\* A Python dict keeps insertion order: a sequence of [key, value] entries.
Keys(d) == {d[i].key : i \in 1..Len(d)}

\* d[key] = value: replace in place if the key exists, else append.
DictSet(d, key, value) ==
    IF key \in Keys(d)
    THEN [i \in 1..Len(d) |->
            IF d[i].key = key THEN [key |-> key, value |-> value] ELSE d[i]]
    ELSE Append(d, [key |-> key, value |-> value])

\* `if not models`
RegistryEmpty == models = <<>>

InitThreads ==
    /\ models = <<>>
    /\ pc = [t \in Threads |-> "idle"]
    /\ calls = [t \in Threads |-> 0]
    /\ idx = [t \in Threads |-> 0]
    /\ raw = [t \in Threads |-> Rat(0, 1)]
    /\ predictions = [t \in Threads |-> <<>>]
    /\ iterUsed = [t \in Threads |-> 0]
    /\ iterPos = [t \in Threads |-> 0]
    /\ err = [t \in Threads |-> "none"]

\* analyze_repo hands a file tree to predict_scores on a worker thread.
Call(t) ==
    /\ pc[t] = "idle"
    /\ calls[t] < MaxCalls
    /\ raw' = [raw EXCEPT ![t] = Rat(0, 1)]
    /\ calls' = [calls EXCEPT ![t] = @ + 1]
    /\ pc' = [pc EXCEPT ![t] = "check"]
    /\ predictions' = [predictions EXCEPT ![t] = <<>>]
    /\ err' = [err EXCEPT ![t] = "none"]
    /\ iterUsed' = [iterUsed EXCEPT ![t] = 0]
    /\ iterPos' = [iterPos EXCEPT ![t] = 0]
    /\ idx' = [idx EXCEPT ![t] = 0]
    /\ UNCHANGED models

\* if not models: train_models()
CheckModels(t) ==
    /\ pc[t] = "check"
    /\ pc' = [pc EXCEPT ![t] = IF RegistryEmpty THEN "generate" ELSE "features"]
    /\ UNCHANGED <<models, calls, idx, raw, predictions, iterUsed, iterPos, err>>

\* data = generate_synthetic_data(...); X, Y = ...
GenerateData(t) ==
    /\ pc[t] = "generate"
    /\ pc' = [pc EXCEPT ![t] = "fit"]
    /\ idx' = [idx EXCEPT ![t] = 1]
    /\ UNCHANGED <<models, calls, raw, predictions, iterUsed, iterPos, err>>

\* One iteration of `for idx, target in enumerate(target_cols)`:
\* model = MLPipeline(); model.fit(X, y); models[target] = model
FitTarget(t) ==
    /\ pc[t] = "fit"
    /\ models' = DictSet(models, target_cols[idx[t]], MLPipeline(t))
    /\ IF idx[t] = NumTargets
       THEN /\ pc' = [pc EXCEPT ![t] = "features"]
            /\ idx' = idx
       ELSE /\ pc' = pc
            /\ idx' = [idx EXCEPT ![t] = @ + 1]
    /\ UNCHANGED <<calls, raw, predictions, iterUsed, iterPos, err>>

\* An exception inside train_models (data generation or a fit): nothing in
\* train_models or predict_scores catches it, and nothing undoes the entries
\* already stored.
TrainRaises(t) ==
    /\ pc[t] \in {"generate", "fit"}
    /\ pc' = [pc EXCEPT ![t] = "raised"]
    /\ err' = [err EXCEPT ![t] = "TrainingFailure"]
    /\ UNCHANGED <<models, calls, idx, raw, predictions, iterUsed, iterPos>>

\* features = extract_features(file_tree); X_new = ...; predictions = {};
\* models.items() creates the iterator, which records the dict's size.
\* The file tree decides what the pipelines predict: one raw value per call.
BeginPredict(t) ==
    /\ pc[t] = "features"
    /\ \E v \in RawPreds : raw' = [raw EXCEPT ![t] = v]
    /\ pc' = [pc EXCEPT ![t] = "iterate"]
    /\ iterUsed' = [iterUsed EXCEPT ![t] = Len(models)]
    /\ iterPos' = [iterPos EXCEPT ![t] = 0]
    /\ predictions' = [predictions EXCEPT ![t] = <<>>]
    /\ UNCHANGED <<models, calls, idx, err>>

\* One step of `for target, model in models.items()`: the iterator raises
\* RuntimeError if the dict changed size, stops when exhausted (the function
\* then returns predictions), else yields the next entry and the body runs.
IterateModels(t) ==
    /\ pc[t] = "iterate"
    /\ IF Len(models) # iterUsed[t]
       THEN /\ pc' = [pc EXCEPT ![t] = "raised"]
            /\ err' = [err EXCEPT ![t] = "RuntimeError"]
            /\ UNCHANGED <<predictions, iterPos>>
       ELSE IF iterPos[t] = Len(models)
       THEN /\ pc' = [pc EXCEPT ![t] = "returned"]
            /\ UNCHANGED <<err, predictions, iterPos>>
       ELSE /\ predictions' = [predictions EXCEPT ![t] =
                  DictSet(@, models[iterPos[t] + 1].key, ClampScore(raw[t]))]
            /\ iterPos' = [iterPos EXCEPT ![t] = @ + 1]
            /\ UNCHANGED <<pc, err>>
    /\ UNCHANGED <<models, calls, idx, raw, iterUsed>>

\* The caller (analyze_repo) takes the result or the exception; the frame's
\* locals are gone and the worker thread is free for another request.
Finish(t) ==
    /\ pc[t] \in {"returned", "raised"}
    /\ pc' = [pc EXCEPT ![t] = "idle"]
    /\ idx' = [idx EXCEPT ![t] = 0]
    /\ raw' = [raw EXCEPT ![t] = Rat(0, 1)]
    /\ predictions' = [predictions EXCEPT ![t] = <<>>]
    /\ iterUsed' = [iterUsed EXCEPT ![t] = 0]
    /\ iterPos' = [iterPos EXCEPT ![t] = 0]
    /\ err' = [err EXCEPT ![t] = "none"]
    /\ UNCHANGED <<models, calls>>

-----------------------------------------------------------------------------
(* Strings: a str is a sequence of one-character strings *)

\* str.lower() on the characters the model's paths use
Lower(c) ==
    CASE c = "A" -> "a" [] c = "B" -> "b" [] c = "C" -> "c" [] c = "D" -> "d"
      [] c = "E" -> "e" [] c = "F" -> "f" [] c = "G" -> "g" [] c = "H" -> "h"
      [] c = "I" -> "i" [] c = "J" -> "j" [] c = "K" -> "k" [] c = "L" -> "l"
      [] c = "M" -> "m" [] c = "N" -> "n" [] c = "O" -> "o" [] c = "P" -> "p"
      [] c = "Q" -> "q" [] c = "R" -> "r" [] c = "S" -> "s" [] c = "T" -> "t"
      [] c = "U" -> "u" [] c = "V" -> "v" [] c = "W" -> "w" [] c = "X" -> "x"
      [] c = "Y" -> "y" [] c = "Z" -> "z" [] OTHER -> c

LowerStr(f) == [i \in 1..Len(f) |-> Lower(f[i])]

\* f.endswith(suffix)
EndsWith(f, suffix) ==
    /\ Len(f) >= Len(suffix)
    /\ SubSeq(f, Len(f) - Len(suffix) + 1, Len(f)) = suffix

\* sub in f
Contains(f, sub) ==
    \E i \in 1..(Len(f) - Len(sub) + 1) : SubSeq(f, i, i + Len(sub) - 1) = sub

\* Mutant of SegmentCount: counts the separators, not the segments.
SegmentCountSeparators(f) == Cardinality({i \in 1..Len(f) : f[i] = "/"})

\* len(f.split('/')): one more segment than separators, 1 for the empty str
SegmentCount(f) == Cardinality({i \in 1..Len(f) : f[i] = "/"}) + 1

\* d[key]
DictGet(d, key) == d[CHOOSE i \in 1..Len(d) : d[i].key = key].value

MaxOf(S) == CHOOSE m \in S : \A x \in S : x <= m

-----------------------------------------------------------------------------
(* extract_features *)

DotJs == <<".", "j", "s">>
DotTs == <<".", "t", "s">>
DotJsx == <<".", "j", "s", "x">>
DotTsx == <<".", "t", "s", "x">>
DotPy == <<".", "p", "y">>
DotMd == <<".", "m", "d">>
DotJson == <<".", "j", "s", "o", "n">>
DotToml == <<".", "t", "o", "m", "l">>
DotYaml == <<".", "y", "a", "m", "l">>
StrTest == <<"t", "e", "s", "t">>
StrSpec == <<"s", "p", "e", "c">>
StrConfig == <<"c", "o", "n", "f", "i", "g">>
StrDockerfile == <<"d", "o", "c", "k", "e", "r", "f", "i", "l", "e">>
StrWorkflows ==
    <<".", "g", "i", "t", "h", "u", "b", "/",
      "w", "o", "r", "k", "f", "l", "o", "w", "s">>
StrGitlabCi == <<".", "g", "i", "t", "l", "a", "b", "-", "c", "i">>

\* f.endswith(('.js', '.ts', '.jsx', '.tsx'))
IsJsTs(f) ==
    EndsWith(f, DotJs) \/ EndsWith(f, DotTs) \/ EndsWith(f, DotJsx)
        \/ EndsWith(f, DotTsx)

IsPy(f) == EndsWith(f, DotPy)

IsMd(f) == EndsWith(f, DotMd)

\* 'test' in f.lower() or 'spec' in f.lower()
IsTest(f) == Contains(LowerStr(f), StrTest) \/ Contains(LowerStr(f), StrSpec)

\* 'config' in f.lower() or f.endswith('.json') or ... '.toml' or ... '.yaml'
IsConfig(f) ==
    Contains(LowerStr(f), StrConfig) \/ EndsWith(f, DotJson)
        \/ EndsWith(f, DotToml) \/ EndsWith(f, DotYaml)

IsDocker(f) == Contains(LowerStr(f), StrDockerfile)

IsCi(f) ==
    Contains(LowerStr(f), StrWorkflows) \/ Contains(LowerStr(f), StrGitlabCi)

\* sum(1 for f in file_tree if <test>): flags[i] is the test on file_tree[i]
CountTrue(flags) == Cardinality({i \in DOMAIN flags : flags[i]})

\* max([len(f.split('/')) for f in file_tree] + [0])
MaxDepth(tree) == MaxOf({SegmentCount(tree[i]) : i \in 1..Len(tree)} \cup {0})

\* a / b if b > 0 else 0
Ratio(a, b) == IF b > 0 THEN Rat(a, b) ELSE Rat(0, 1)

\* The dict extract_features returns, in the order its keys are inserted.
extract_features(tree) ==
    LET total == Len(tree)
        tests == CountTrue([i \in 1..Len(tree) |-> IsTest(tree[i])])
        mds == CountTrue([i \in 1..Len(tree) |-> IsMd(tree[i])])
    IN  << [key |-> "total_files", value |-> total],
           [key |-> "js_ts_files",
            value |-> CountTrue([i \in 1..Len(tree) |-> IsJsTs(tree[i])])],
           [key |-> "py_files",
            value |-> CountTrue([i \in 1..Len(tree) |-> IsPy(tree[i])])],
           [key |-> "md_files", value |-> mds],
           [key |-> "test_files", value |-> tests],
           [key |-> "config_files",
            value |-> CountTrue([i \in 1..Len(tree) |-> IsConfig(tree[i])])],
           [key |-> "has_docker",
            value |-> IF \E i \in 1..Len(tree) : IsDocker(tree[i]) THEN 1 ELSE 0],
           [key |-> "has_ci",
            value |-> IF \E i \in 1..Len(tree) : IsCi(tree[i]) THEN 1 ELSE 0],
           [key |-> "max_depth", value |-> MaxDepth(tree)],
           [key |-> "test_ratio", value |-> Ratio(tests, total)],
           [key |-> "doc_ratio", value |-> Ratio(mds, total)] >>

\* The paths the model's file trees are built from.
Paths ==
    { <<>>,
      <<"R", "E", "A", "D", "M", "E", ".", "M", "D">>,
      <<"r", "e", "a", "d", "m", "e", ".", "m", "d">>,
      <<"M", "a", "i", "n", ".", "P", "Y">>,
      <<"m", "a", "i", "n", ".", "p", "y">>,
      <<"s", "r", "c", "/", "A", "p", "p", ".", "T", "S", "X">>,
      <<"s", "r", "c", "/", "a", "p", "p", ".", "t", "s", "x">>,
      <<"T", "e", "s", "t", "s", "/", "u", "/", "a", ".", "j", "s">>,
      <<"D", "o", "c", "k", "e", "r", "f", "i", "l", "e">>,
      <<"p", "k", "g", ".", "j", "s", "o", "n">>,
      <<".", "g", "i", "t", "l", "a", "b", "-", "c", "i", ".", "y", "m", "l">>,
      <<"c", "o", "n", "f", "i", "g", "/", "x", ".", "t", "o", "m", "l">> }

FileTrees == UNION {[1..n -> Paths] : n \in 0..MaxPaths}

IdleFeatures == file_tree = <<>> /\ features = <<>>

InitFileTree == file_tree \in FileTrees /\ features = <<>>

\* features = extract_features(file_tree)
ExtractFeatures ==
    /\ features = <<>>
    /\ features' = extract_features(file_tree)
    /\ UNCHANGED file_tree

-----------------------------------------------------------------------------
(* generate_synthetic_data *)

feature_cols ==
    <<"total_files", "js_ts_files", "py_files", "md_files", "test_files",
      "config_files", "has_docker", "has_ci", "max_depth", "test_ratio",
      "doc_ratio">>

\* list(d.keys()) and list(d.values())
DictKeys(d) == [i \in 1..Len(d) |-> d[i].key]

DictValues(d) == [i \in 1..Len(d) |-> d[i].value]

\* random.uniform(lo/10, hi/10), on the grid of multiples of 1/RatioDen
Uniform(loTenths, hiTenths) ==
    {Norm(k, RatioDen) :
        k \in {j \in 0..RatioDen : 10 * j >= loTenths * RatioDen
                                   /\ 10 * j <= hiTenths * RatioDen}}

\* random.randint(lo, hi), cut to its low end and its maximum
RandInt(lo, hi) == {n \in lo..hi : n <= lo + MaxSpread \/ n = hi}

\* The random values one loop iteration draws.
Draws ==
    [total_files : RandInt(10, 500),
     test_ratio : Uniform(0, 4),
     doc_ratio : Uniform(0, 2),
     has_ci : {0, 1},
     has_docker : {0, 1},
     js_fraction : {Norm(1, 10), Norm(8, 10)},
     config_files : {2, 10},
     max_depth : {2, 8}]

\* The dict `scores` of one iteration: six labels clamped to [10,100], then
\* 'overall' = sum(scores.values()) / len(scores) over those six.
SyntheticScores(r) ==
    LET code_quality ==
            RatSub(RatAdd(RatAdd(IntRat(40), RatMul(r.test_ratio, IntRat(100))),
                          IntRat(r.has_ci * 10)),
                   IntRat(r.max_depth * 2))
        security == IntRat(50 + r.has_docker * 10 + r.has_ci * 15)
        documentation == RatAdd(IntRat(30), RatMul(r.doc_ratio, IntRat(300)))
        maintainability ==
            RatSub(RatAdd(RatAdd(IntRat(60), RatMul(r.test_ratio, IntRat(50))),
                          RatMul(r.doc_ratio, IntRat(100))),
                   IntRat(r.max_depth * 3))
        dependencies == IntRat(50 + r.config_files * 3)
        test_coverage == RatMul(r.test_ratio, IntRat(250))
        Cap(v) == RatMin(IntRat(100), RatMax(IntRat(10), v))
        six == << [key |-> "codeQuality", value |-> Cap(code_quality)],
                  [key |-> "security", value |-> Cap(security)],
                  [key |-> "documentation", value |-> Cap(documentation)],
                  [key |-> "maintainability", value |-> Cap(maintainability)],
                  [key |-> "dependencies", value |-> Cap(dependencies)],
                  [key |-> "testCoverage", value |-> Cap(test_coverage)] >>
        total == RatAdd(RatAdd(RatAdd(six[1].value, six[2].value),
                               RatAdd(six[3].value, six[4].value)),
                        RatAdd(six[5].value, six[6].value))
    IN  Append(six, [key |-> "overall",
                     value |-> RatMul(total, Rat(1, Len(six)))])

\* Mutant of SyntheticFeatures: the two ratio fields are stored in the other
\* order.
SyntheticFeaturesSwapped(r) ==
    << [key |-> "total_files", value |-> r.total_files],
       [key |-> "js_ts_files",
        value |-> Trunc(RatMul(IntRat(r.total_files), r.js_fraction))],
       [key |-> "py_files", value |-> 0],
       [key |-> "md_files",
        value |-> Trunc(RatMul(IntRat(r.total_files), r.doc_ratio))],
       [key |-> "test_files",
        value |-> Trunc(RatMul(IntRat(r.total_files), r.test_ratio))],
       [key |-> "config_files", value |-> r.config_files],
       [key |-> "has_docker", value |-> r.has_docker],
       [key |-> "has_ci", value |-> r.has_ci],
       [key |-> "max_depth", value |-> r.max_depth],
       [key |-> "doc_ratio", value |-> r.doc_ratio],
       [key |-> "test_ratio", value |-> r.test_ratio] >>

\* The dict `features` of one iteration, in the order its keys are written.
SyntheticFeatures(r) ==
    << [key |-> "total_files", value |-> r.total_files],
       [key |-> "js_ts_files",
        value |-> Trunc(RatMul(IntRat(r.total_files), r.js_fraction))],
       [key |-> "py_files", value |-> 0],
       [key |-> "md_files",
        value |-> Trunc(RatMul(IntRat(r.total_files), r.doc_ratio))],
       [key |-> "test_files",
        value |-> Trunc(RatMul(IntRat(r.total_files), r.test_ratio))],
       [key |-> "config_files", value |-> r.config_files],
       [key |-> "has_docker", value |-> r.has_docker],
       [key |-> "has_ci", value |-> r.has_ci],
       [key |-> "max_depth", value |-> r.max_depth],
       [key |-> "test_ratio", value |-> r.test_ratio],
       [key |-> "doc_ratio", value |-> r.doc_ratio] >>

\* generate_synthetic_data(num_samples): the argument the callers pass is
\* 500 or 100; the model builds datasets of at most one row.
SampleCounts == {0, 1}

IdleGenerator ==
    num_samples = 0 /\ data = <<>> /\ gen_features = <<>> /\ gen_scores = <<>>

InitGenerator ==
    /\ num_samples \in SampleCounts
    /\ data = <<>>
    /\ gen_features = <<>>
    /\ gen_scores = <<>>

\* One iteration of `for _ in range(num_samples)`
GenerateSample ==
    /\ Len(data) < num_samples
    /\ \E r \in Draws :
        /\ gen_features' = SyntheticFeatures(r)
        /\ gen_scores' = SyntheticScores(r)
        /\ data' = Append(data, DictValues(SyntheticFeatures(r))
                                    \o DictValues(SyntheticScores(r)))
    /\ UNCHANGED num_samples

-----------------------------------------------------------------------------
(* StandardScaler *)

\* sum(...) over a sequence of floats: 0 + v1 + v2 + ..., left to right
RECURSIVE FSum(_)
FSum(vs) ==
    IF vs = <<>> THEN Rat(0, 1)
    ELSE FAdd(FSum(SubSeq(vs, 1, Len(vs) - 1)), vs[Len(vs)])

\* self.means = [sum(x[j] for x in X) / n_samples for j in range(n_features)]
FitMeans(X) ==
    [j \in 1..Len(X[1]) |->
        FDiv(FSum([i \in 1..Len(X) |-> X[i][j]]), IntRat(Len(X)))]

\* (variance ** 0.5) if variance > 0 else 1.0
StdOf(variance) == IF variance.n > 0 THEN FSqrt(variance) ELSE Rat(1, 1)

\* the loop that fills self.stds, given self.means
FitStds(X, mu) ==
    [j \in 1..Len(X[1]) |->
        LET sq(i) == LET dev == FSub(X[i][j], mu[j]) IN FMul(dev, dev)
            variance == FDiv(FSum([i \in 1..Len(X) |-> sq(i)]), IntRat(Len(X)))
        IN  StdOf(variance)]

\* What transform(X) raises with the given means and stds: means[j] is read
\* before stds[j] divides.
TransformError(X, mu, sigma) ==
    IF \E i \in 1..Len(X) : Len(X[i]) > Len(mu) \/ Len(X[i]) > Len(sigma)
    THEN "IndexError"
    ELSE IF \E i \in 1..Len(X) : \E j \in 1..Len(X[i]) : sigma[j].n = 0
    THEN "ZeroDivisionError"
    ELSE "none"

\* [[(x[j] - self.means[j]) / self.stds[j] for j in range(len(x))] for x in X]
TransformRows(X, mu, sigma) ==
    [i \in 1..Len(X) |->
        [j \in 1..Len(X[i]) |-> FDiv(FSub(X[i][j], mu[j]), sigma[j])]]

\* The floats a matrix entry is drawn from
InputFloats == {Rat(0, 1), Rat(3, 1)}

\* Matrices of 0..MaxRows rows, all of the same length 1..MaxCols
Matrices ==
    UNION {[1..r -> [1..c -> InputFloats]] : r \in 0..MaxRows, c \in 1..MaxCols}

\* One-row matrices, as predict passes to transform
RowMatrices == UNION {[1..1 -> [1..c -> InputFloats]] : c \in 1..MaxCols}

\* StandardScaler.__init__
InitScaler ==
    /\ means = <<>>
    /\ stds = <<>>
    /\ scaler_calls = 0
    /\ scaler_op = "init"
    /\ scaler_X = <<>>
    /\ scaler_out = <<>>
    /\ scaler_err = "none"

\* fit_transform(X): len(X[0]) raises IndexError on an empty X before
\* anything is assigned; otherwise means and stds are set and transform(X)
\* is returned.
fit_transform ==
    \E X \in Matrices :
        /\ scaler_calls < MaxScalerCalls
        /\ scaler_calls' = scaler_calls + 1
        /\ scaler_op' = "fit_transform"
        /\ scaler_X' = X
        /\ IF X = <<>>
           THEN /\ scaler_err' = "IndexError"
                /\ scaler_out' = <<>>
                /\ UNCHANGED <<means, stds>>
           ELSE /\ means' = FitMeans(X)
                /\ stds' = FitStds(X, means')
                /\ scaler_err' = TransformError(X, means', stds')
                /\ scaler_out' = IF scaler_err' = "none"
                                 THEN TransformRows(X, means', stds')
                                 ELSE <<>>

\* transform(X)
transform ==
    \E X \in RowMatrices :
        /\ scaler_calls < MaxScalerCalls
        /\ scaler_calls' = scaler_calls + 1
        /\ scaler_op' = "transform"
        /\ scaler_X' = X
        /\ scaler_err' = TransformError(X, means, stds)
        /\ scaler_out' = IF scaler_err' = "none"
                         THEN TransformRows(X, means, stds)
                         ELSE <<>>
        /\ UNCHANGED <<means, stds>>

-----------------------------------------------------------------------------
(* PurePythonLinearRegressor *)

\* learning_rate=0.1: the float nearest to 1/10
LearningRate == FRound(Rat(1, 10))

\* predict(X): bias + sum(weights[j] * x[j] for j in range(len(x))) per row
predict(w, b, X) ==
    [i \in 1..Len(X) |->
        FAdd(b, FSum([j \in 1..Len(X[i]) |-> FMul(w[j], X[i][j])]))]

\* One epoch of fit: predictions over the whole set, the gradient sums dw
\* and db, then one update of every weight and of the bias.
Epoch(w, b, X, y, rate) ==
    LET y_predicted == predict(w, b, X)
        error == [i \in 1..Len(X) |-> FSub(y_predicted[i], y[i])]
        db == FSum(error)
        dw == [j \in 1..Len(w) |->
                  FSum([i \in 1..Len(X) |-> FMul(error[i], X[i][j])])]
        step == FDiv(rate, IntRat(Len(X)))
    IN  [weights |-> [j \in 1..Len(w) |-> FSub(w[j], FMul(step, dw[j]))],
         bias |-> FSub(b, FMul(step, db))]

\* `for _ in range(self.epochs)`: k epochs from weights w and bias b
RECURSIVE Descend(_, _, _, _, _, _)
Descend(w, b, X, y, rate, k) ==
    IF k = 0 THEN [weights |-> w, bias |-> b]
    ELSE LET e == Epoch(w, b, X, y, rate)
         IN  Descend(e.weights, e.bias, X, y, rate, k - 1)

\* [0.0] * n_features
ZeroWeights(X) == [j \in 1..Len(X[1]) |-> Rat(0, 1)]

\* Training sets: 1..2 rows of one feature, and a label per row
TrainingSets ==
    UNION {[X : [1..r -> [1..1 -> InputFloats]], y : [1..r -> InputFloats]] :
             r \in 1..2}

\* PurePythonLinearRegressor(learning_rate=0.1, epochs=e)
InitRegressor ==
    /\ lr = LearningRate
    /\ epochs \in 1..MaxEpochs
    /\ weights = <<>>
    /\ bias = Rat(0, 1)
    /\ fits = 0
    /\ fit_X = <<>>
    /\ fit_y = <<>>

IdleRegressor == InitRegressor /\ epochs = 1

\* fit(X, y): self.weights is set to zeros; self.bias is assigned only in
\* __init__ and by the updates, so the descent starts from the bias the
\* object has.
fit ==
    \E s \in TrainingSets :
        /\ fits < MaxFits
        /\ fits' = fits + 1
        /\ fit_X' = s.X
        /\ fit_y' = s.y
        /\ LET fitted == Descend(ZeroWeights(s.X), bias, s.X, s.y, lr, epochs)
           IN  weights' = fitted.weights /\ bias' = fitted.bias
        /\ UNCHANGED <<lr, epochs>>

-----------------------------------------------------------------------------
(* Specifications *)

Init ==
    InitThreads /\ IdleFeatures /\ IdleGenerator /\ InitScaler /\ IdleRegressor

Next ==
    /\ \E t \in Threads :
           \/ Call(t)
           \/ CheckModels(t)
           \/ GenerateData(t)
           \/ FitTarget(t)
           \/ TrainRaises(t)
           \/ BeginPredict(t)
           \/ IterateModels(t)
           \/ Finish(t)
    /\ UNCHANGED <<featureVars, generatorVars, scalerVars, regressorVars>>

Spec == Init /\ [][Next]_vars

InitFeatures ==
    InitThreads /\ InitFileTree /\ IdleGenerator /\ InitScaler /\ IdleRegressor

NextFeatures ==
    /\ ExtractFeatures
    /\ UNCHANGED <<threadVars, generatorVars, scalerVars, regressorVars>>

SpecFeatures == InitFeatures /\ [][NextFeatures]_vars

InitSynthetic ==
    InitThreads /\ IdleFeatures /\ InitGenerator /\ InitScaler /\ IdleRegressor

NextGenerator ==
    /\ GenerateSample
    /\ UNCHANGED <<threadVars, featureVars, scalerVars, regressorVars>>

SpecGenerator == InitSynthetic /\ [][NextGenerator]_vars

NextScaler ==
    /\ fit_transform \/ transform
    /\ UNCHANGED <<threadVars, featureVars, generatorVars, regressorVars>>

SpecScaler == Init /\ [][NextScaler]_vars

InitFresh ==
    InitThreads /\ IdleFeatures /\ IdleGenerator /\ InitScaler /\ InitRegressor

NextRegressor ==
    fit /\ UNCHANGED <<threadVars, featureVars, generatorVars, scalerVars>>

SpecRegressor == InitFresh /\ [][NextRegressor]_vars

-----------------------------------------------------------------------------
(* Claims about the registry, checked under Spec *)

TargetSet == {target_cols[i] : i \in 1..NumTargets}

InTraining(t) == pc[t] \in {"generate", "fit"}

\* C1: under concurrent first requests train_models executes once: at most
\* one caller is inside train_models at any time, and every entry of the
\* registry was stored by one and the same training run.
C1_TrainsExactlyOnce ==
    /\ Cardinality({t \in Threads : InTraining(t)}) <= 1
    /\ \A i, j \in 1..Len(models) : models[i].value = models[j].value

\* C2: every result predict_scores returns maps exactly the 7 target names,
\* each to an integer in [0,100]; a registry of 1..6 entries never produces a
\* returned result.
C2_ReturnsAllSevenScores ==
    \A t \in Threads :
        pc[t] = "returned" =>
            /\ Len(predictions[t]) = NumTargets
            /\ Keys(predictions[t]) = TargetSet
            /\ \A i \in 1..Len(predictions[t]) :
                   predictions[t][i].value \in 0..100

\* C3: when train_models has failed (the error is with the caller), the
\* registry is empty, so that the next call trains again from scratch.
C3_FailureLeavesRegistryEmpty ==
    \A t \in Threads :
        (pc[t] = "raised" /\ err[t] = "TrainingFailure") => RegistryEmpty

\* C4: once the registry holds all 7 entries it never changes again: no
\* entry is added, removed or replaced.
C4_TrainedIsTerminal ==
    [][Len(models) = NumTargets => models' = models]_vars

-----------------------------------------------------------------------------
(* Claims about extract_features, checked under SpecFeatures *)

Extracted == features # <<>>

LowerEndsWithAny(f, suffixes) == \E x \in suffixes : EndsWith(LowerStr(f), x)

LowerIsJsTs(f) == LowerEndsWithAny(f, {DotJs, DotTs, DotJsx, DotTsx})

LowerIsPy(f) == LowerEndsWithAny(f, {DotPy})

LowerIsMd(f) == LowerEndsWithAny(f, {DotMd})

\* C5: js_ts_files, py_files and md_files count the paths whose lower-cased
\* form ends in .js/.ts/.jsx/.tsx, .py and .md: letter case does not matter.
C5_SuffixCountsIgnoreCase ==
    Extracted =>
        /\ DictGet(features, "js_ts_files") =
               CountTrue([i \in 1..Len(file_tree) |-> LowerIsJsTs(file_tree[i])])
        /\ DictGet(features, "py_files") =
               CountTrue([i \in 1..Len(file_tree) |-> LowerIsPy(file_tree[i])])
        /\ DictGet(features, "md_files") =
               CountTrue([i \in 1..Len(file_tree) |-> LowerIsMd(file_tree[i])])

CountKeys ==
    {"js_ts_files", "py_files", "md_files", "test_files", "config_files"}

\* C8: every count is an integer in 0..total_files with total_files = len(P);
\* max_depth is at least 1 for a non-empty P and 0 for the empty P.
C8_CountsBoundedDepthPositive ==
    Extracted =>
        /\ DictGet(features, "total_files") = Len(file_tree)
        /\ \A k \in CountKeys :
               DictGet(features, k) \in 0..DictGet(features, "total_files")
        /\ file_tree # <<>> => DictGet(features, "max_depth") >= 1
        /\ file_tree = <<>> => DictGet(features, "max_depth") = 0

\* C8 witness: a non-empty tree with a flat path and a nested one has been
\* extracted, with a count that is neither 0 nor total_files.
C8_Witness ==
    /\ Extracted
    /\ Len(file_tree) = 2
    /\ DictGet(features, "md_files") = 1
    /\ DictGet(features, "max_depth") = 3

-----------------------------------------------------------------------------
(* Claims about generate_synthetic_data, checked under SpecGenerator *)

Generated == data # <<>>

\* The row's fields are those of extract_features, in its order, and the row
\* starts with their values.
SameFieldOrder ==
    /\ DictKeys(gen_features) = DictKeys(extract_features(<<>>))
    /\ DictKeys(gen_features) = feature_cols
    /\ SubSeq(data[Len(data)], 1, Len(feature_cols)) = DictValues(gen_features)

\* count / total_files = ratio, the invariant of extract_features' output
RatioIsCountOverTotal(count, ratio) ==
    RatEq(Rat(DictGet(gen_features, count), DictGet(gen_features, "total_files")),
          DictGet(gen_features, ratio))

\* count = int(total_files * ratio): count/total <= ratio < (count+1)/total
CountIsTruncatedProduct(count, ratio) ==
    LET c == DictGet(gen_features, count)
        total == DictGet(gen_features, "total_files")
        q == DictGet(gen_features, ratio)
    IN  /\ c \in 0..total
        /\ ~RatLess(q, Rat(c, total))
        /\ RatLess(q, Rat(c + 1, total))

-----------------------------------------------------------------------------
(* Claims about StandardScaler, checked under SpecScaler *)

FittedOnEmpty == scaler_op = "fit_transform" /\ scaler_X = <<>>

FittedOnRows == scaler_op = "fit_transform" /\ scaler_X # <<>>

\* C6: fit_transform on an empty matrix fails with InvalidInput and with no
\* other kind of error, and leaves no means or stds behind.
C6_EmptyFitIsInvalidInput ==
    FittedOnEmpty =>
        /\ scaler_err = "InvalidInput"
        /\ means = <<>>
        /\ stds = <<>>

ConstantColumn(X, j) == \A i \in 1..Len(X) : X[i][j] = X[1][j]

\* C9: after fit_transform on a non-empty matrix no stored std is 0; a column
\* that is constant over the training rows has std 1.0 and is transformed to
\* 0 in every row; nothing, then or in a later transform, divides by zero.
C9_ZeroVarianceColumns ==
    /\ scaler_err # "ZeroDivisionError"
    /\ \A j \in 1..Len(stds) : stds[j].n # 0
    /\ FittedOnRows =>
        \A j \in 1..Len(scaler_X[1]) :
            ConstantColumn(scaler_X, j) =>
                /\ stds[j] = Rat(1, 1)
                /\ scaler_err = "none"
                /\ \A i \in 1..Len(scaler_out) : scaler_out[i][j] = Rat(0, 1)

-----------------------------------------------------------------------------
(* Claims about PurePythonLinearRegressor, checked under SpecRegressor *)

\* What fitting a fresh regressor on the last (X, y) leaves: the descent from
\* all-zero weights and a zero bias.
FreshFit == Descend(ZeroWeights(fit_X), Rat(0, 1), fit_X, fit_y, lr, epochs)

\* C10: every fit starts from zero weights and a zero bias, so whatever was
\* fitted before, fit leaves the weights and bias a fresh regressor would get
\* from the same X, y, learning rate and epoch count.
C10_FitDependsOnlyOnArguments ==
    fits > 0 => (weights = FreshFit.weights /\ bias = FreshFit.bias)

=============================================================================
